---------------------------- MODULE Spec2Model ----------------------------
(***************************************************************************)
(* Model of the stack_compiler toolchain: parser (src/compiler/parser.py), *)
(* semantic analyzer (semantic_analyzer.py), code generator                *)
(* (stack_codegen.py), stack machine (stack_interpreter.py) and the driver *)
(* run_pipeline (src/main.py).                                             *)
(*                                                                         *)
(* Source programs are token sequences as the lexer delivers them.  The    *)
(* parser, the analyzer and the generator are operators computed the way   *)
(* the code computes them; the virtual machine runs one instruction per    *)
(* step.                                                                   *)
(***************************************************************************)
EXTENDS Integers, Sequences, FiniteSets, TLC

(***************************************************************************)
(* Runtime / literal values.  One record shape for every Python value the  *)
(* programs handle: int, float (an exact fraction n/d), str (the sequence  *)
(* of its code points), bool, None.                                        *)
(***************************************************************************)
IntV(i) == [k |-> "int", n |-> i, d |-> 1, s |-> <<>>]

RECURSIVE Gcd(_, _)
Gcd(a, b) == IF b = 0 THEN a ELSE Gcd(b, a % b)

Abs(i) == IF i < 0 THEN -i ELSE i

\* float(n/d), d > 0, kept in lowest terms
FloatV(num, den) ==
    LET g == Gcd(Abs(num), den)
    IN  IF num = 0 THEN [k |-> "float", n |-> 0, d |-> 1, s |-> <<>>]
        ELSE [k |-> "float", n |-> num \div g, d |-> den \div g, s |-> <<>>]

StrV(str) == [k |-> "str", n |-> 0, d |-> 1, s |-> str]

BoolV(b) == [k |-> "bool", n |-> IF b THEN 1 ELSE 0, d |-> 1, s |-> <<>>]

NoneV == [k |-> "none", n |-> 0, d |-> 1, s |-> <<>>]

(***************************************************************************)
(* Tokens (lexer.py): type, lexeme (operators, identifiers) and the        *)
(* decoded value of NUMBER / STRING tokens.                                *)
(***************************************************************************)
Tk(type, lex) == [type |-> type, lex |-> lex, val |-> NoneV]

NUM(i) == [type |-> "NUMBER", lex |-> "", val |-> IntV(i)]

FLT(num, den) == [type |-> "NUMBER", lex |-> "", val |-> FloatV(num, den)]

\* t_STRING returns the lexeme unchanged; the text between the double
\* quotes is kept here, the quotes are implied.
STR(str) == [type |-> "STRING", lex |-> "", val |-> StrV(str)]

ID(name) == Tk("IDENTIFIER", name)

\* the delimiters and '=' of the lexer, by lexeme
Punct(lex) ==
    Tk(CASE lex = "(" -> "LPAREN"
         [] lex = ")" -> "RPAREN"
         [] lex = "{" -> "LBRACE"
         [] lex = "}" -> "RBRACE"
         [] lex = ";" -> "SEMI"
         [] lex = "," -> "COMMA"
         [] lex = "=" -> "EQUALS", lex)

\* the keywords of the lexer, by lexeme
Kw(lex) ==
    Tk(CASE lex = "if" -> "IF"
         [] lex = "else" -> "ELSE"
         [] lex = "while" -> "WHILE"
         [] lex = "for" -> "FOR"
         [] lex = "func" -> "FUNC"
         [] lex = "return" -> "RETURN"
         [] lex = "break" -> "BREAK"
         [] lex = "continue" -> "CONTINUE", lex)

\* the operator tokens of the lexer, by lexeme
OpTokType(lex) ==
    CASE lex = "==" -> "EQ"
      [] lex = "!=" -> "NE"
      [] lex = "<=" -> "LE"
      [] lex = ">=" -> "GE"
      [] lex = "&&" -> "AND"
      [] lex = "||" -> "OR"
      [] lex = "!"  -> "NOT"
      [] lex = "<"  -> "LT"
      [] lex = ">"  -> "GT"
      [] lex = "+"  -> "PLUS"
      [] lex = "-"  -> "MINUS"
      [] lex = "*"  -> "TIMES"
      [] lex = "/"  -> "DIVIDE"
      [] lex = "%"  -> "MOD"

OP(lex) == Tk(OpTokType(lex), lex)

(***************************************************************************)
(* AST nodes (ast_nodes.py).  Line numbers only feed messages and are left *)
(* out.  Python's None is the node NoneNode.                               *)
(***************************************************************************)
NoneNode == [kind |-> "None"]

IsNone(node) == node.kind = "None"

BinOp(op, left, right) == [kind |-> "BinOp", op |-> op, left |-> left, right |-> right]

UnaryOp(op, expr) == [kind |-> "UnaryOp", op |-> op, expr |-> expr]

Literal(value) == [kind |-> "Literal", value |-> value]

Identifier(name) == [kind |-> "Identifier", name |-> name]

FunCall(name, args) == [kind |-> "FunCall", name |-> name, args |-> args]

Program(statements) == [kind |-> "Program", statements |-> statements]

Block(statements) == [kind |-> "Block", statements |-> statements]

Assignment(target, value) == [kind |-> "Assignment", target |-> target, value |-> value]

IfStatement(condition, then_body, else_body) ==
    [kind |-> "IfStatement", condition |-> condition,
     then_body |-> then_body, else_body |-> else_body]

WhileStatement(condition, body) ==
    [kind |-> "WhileStatement", condition |-> condition, body |-> body]

ForStatement(init, condition, update, body) ==
    [kind |-> "ForStatement", init |-> init, condition |-> condition,
     update |-> update, body |-> body]

FunctionDef(name, params, body) ==
    [kind |-> "FunctionDef", name |-> name, params |-> params, body |-> body]

ReturnStatement(value) == [kind |-> "ReturnStatement", value |-> value]

ControlFlow(keyword) == [kind |-> "ControlFlow", keyword |-> keyword]

ExprStatement(expr) == [kind |-> "ExprStatement", expr |-> expr]

(***************************************************************************)
(* Parser (parser.py): the grammar of the p_* rules with the precedence    *)
(* table, as a recognizer that builds the AST the reductions build.  A     *)
(* result is [ok, node, pos]: pos is the index of the next unread token.   *)
(* ok = FALSE is the call of p_error.                                      *)
(***************************************************************************)
PTok(toks, i) == IF i <= Len(toks) THEN toks[i] ELSE Tk("$end", "")

POk(node, pos) == [ok |-> TRUE, node |-> node, pos |-> pos]

PFail(pos) == [ok |-> FALSE, node |-> NoneNode, pos |-> pos]

\* precedence = (...): level of a binary operator token, 0 if it is none
Precedence(type) ==
    CASE type = "OR" -> 1
      [] type = "AND" -> 2
      [] type \in {"EQ", "NE"} -> 3
      [] type \in {"LT", "GT", "LE", "GE"} -> 4
      [] type \in {"PLUS", "MINUS"} -> 5
      [] type \in {"TIMES", "DIVIDE", "MOD"} -> 6
      [] OTHER -> 0

RECURSIVE p_expression(_, _, _)
RECURSIVE p_expression_binop(_, _, _, _)
RECURSIVE p_expression_unary(_, _)
RECURSIVE p_expression_primary(_, _)
RECURSIVE p_argument_list(_, _, _)
RECURSIVE p_statement(_, _)
RECURSIVE p_statement_list(_, _, _)

\* argument_list : argument_list COMMA expression | expression
p_argument_list(toks, i, acc) ==
    LET after_expression(e) ==
            IF ~e.ok THEN e
            ELSE IF PTok(toks, e.pos).type = "COMMA"
                 THEN p_argument_list(toks, e.pos + 1, Append(acc, e.node))
                 ELSE [ok |-> TRUE, node |-> NoneNode, pos |-> e.pos,
                       list |-> Append(acc, e.node)]
    IN  after_expression(p_expression(toks, i, 1))

\* NUMBER | STRING | IDENTIFIER | IDENTIFIER ( args? ) | ( expression )
p_expression_primary(toks, i) ==
    LET after_arguments(t, a) ==
            IF ~a.ok THEN PFail(a.pos)
            ELSE IF PTok(toks, a.pos).type = "RPAREN"
                 THEN POk(FunCall(Identifier(t.lex), a.list), a.pos + 1)
                 ELSE PFail(a.pos)
        after_group(e) ==
            IF ~e.ok THEN e
            ELSE IF PTok(toks, e.pos).type = "RPAREN"
                 THEN POk(e.node, e.pos + 1)
                 ELSE PFail(e.pos)
        primary(t) ==
            CASE t.type \in {"NUMBER", "STRING"} -> POk(Literal(t.val), i + 1)
              [] t.type = "IDENTIFIER" ->
                   IF PTok(toks, i + 1).type = "LPAREN"
                   THEN IF PTok(toks, i + 2).type = "RPAREN"
                        THEN POk(FunCall(Identifier(t.lex), <<>>), i + 3)
                        ELSE after_arguments(t, p_argument_list(toks, i + 2, <<>>))
                   ELSE POk(Identifier(t.lex), i + 1)
              [] t.type = "LPAREN" -> after_group(p_expression(toks, i + 1, 1))
              [] OTHER -> PFail(i)
    IN  primary(PTok(toks, i))

\* NOT expression | MINUS expression %prec UMINUS   (highest level, right)
p_expression_unary(toks, i) ==
    LET after_operand(t, e) == IF e.ok THEN POk(UnaryOp(t.lex, e.node), e.pos) ELSE e
        unary(t) ==
            IF t.type \in {"NOT", "MINUS"}
            THEN after_operand(t, p_expression_unary(toks, i + 1))
            ELSE p_expression_primary(toks, i)
    IN  unary(PTok(toks, i))

\* expression OP expression, all binary operators left-associative
p_expression_binop(toks, left, i, minPrec) ==
    LET after_right(t, r) ==
            IF r.ok
            THEN p_expression_binop(toks, BinOp(t.lex, left, r.node), r.pos, minPrec)
            ELSE r
        binop(t, pr) ==
            IF pr >= minPrec /\ pr > 0
            THEN after_right(t, p_expression(toks, i + 1, pr + 1))
            ELSE POk(left, i)
    IN  binop(PTok(toks, i), Precedence(PTok(toks, i).type))

p_expression(toks, i, minPrec) ==
    LET after_left(l) ==
            IF l.ok THEN p_expression_binop(toks, l.node, l.pos, minPrec) ELSE l
    IN  after_left(p_expression_unary(toks, i))

\* parameter_list : parameter_list COMMA IDENTIFIER | IDENTIFIER
RECURSIVE p_parameter_list(_, _, _)
p_parameter_list(toks, i, acc) ==
    IF PTok(toks, i).type # "IDENTIFIER" THEN PFail(i)
    ELSE IF PTok(toks, i + 1).type = "COMMA"
         THEN p_parameter_list(toks, i + 2, Append(acc, Identifier(toks[i].lex)))
         ELSE [ok |-> TRUE, node |-> NoneNode, pos |-> i + 1,
               list |-> Append(acc, Identifier(toks[i].lex))]

\* block : LBRACE statement_list RBRACE | LBRACE RBRACE   (i is at LBRACE)
p_block(toks, i) ==
    LET after_list(l) ==
            IF ~l.ok THEN PFail(l.pos)
            ELSE IF PTok(toks, l.pos).type = "RBRACE"
                 THEN POk(Block(l.list), l.pos + 1)
                 ELSE PFail(l.pos)
    IN  IF PTok(toks, i).type # "LBRACE" THEN PFail(i)
        ELSE IF PTok(toks, i + 1).type = "RBRACE" THEN POk(Block(<<>>), i + 2)
        ELSE after_list(p_statement_list(toks, i + 1, <<>>))

\* if_statement : IF ( expression ) statement [ELSE statement]
\* (the shift/reduce conflict on ELSE is resolved by shifting)
p_if_statement(toks, i) ==
    LET after_else(c, t, e) ==
            IF ~e.ok THEN e ELSE POk(IfStatement(c.node, t.node, e.node), e.pos)
        after_then(c, t) ==
            IF ~t.ok THEN t
            ELSE IF PTok(toks, t.pos).type = "ELSE"
                 THEN after_else(c, t, p_statement(toks, t.pos + 1))
                 ELSE POk(IfStatement(c.node, t.node, NoneNode), t.pos)
        after_condition(c) ==
            IF ~c.ok THEN c
            ELSE IF PTok(toks, c.pos).type # "RPAREN" THEN PFail(c.pos)
            ELSE after_then(c, p_statement(toks, c.pos + 1))
    IN  IF PTok(toks, i + 1).type # "LPAREN" THEN PFail(i + 1)
        ELSE after_condition(p_expression(toks, i + 2, 1))

\* while_statement : WHILE ( expression ) statement
p_while_statement(toks, i) ==
    LET after_body(c, b) ==
            IF ~b.ok THEN b ELSE POk(WhileStatement(c.node, b.node), b.pos)
        after_condition(c) ==
            IF ~c.ok THEN c
            ELSE IF PTok(toks, c.pos).type # "RPAREN" THEN PFail(c.pos)
            ELSE after_body(c, p_statement(toks, c.pos + 1))
    IN  IF PTok(toks, i + 1).type # "LPAREN" THEN PFail(i + 1)
        ELSE after_condition(p_expression(toks, i + 2, 1))

\* assignment_or_empty : IDENTIFIER EQUALS expression | empty
p_assignment_or_empty(toks, i) ==
    LET after_value(v) ==
            IF ~v.ok THEN v
            ELSE POk(Assignment(Identifier(toks[i].lex), v.node), v.pos)
    IN  IF PTok(toks, i).type = "IDENTIFIER"
        THEN IF PTok(toks, i + 1).type # "EQUALS" THEN PFail(i + 1)
             ELSE after_value(p_expression(toks, i + 2, 1))
        ELSE POk(NoneNode, i)

\* expression_or_empty : expression | empty ; `follow` is the token that
\* ends the clause (SEMI or RPAREN), on which empty is reduced
p_expression_or_empty(toks, i, follow) ==
    IF PTok(toks, i).type = follow THEN POk(NoneNode, i)
    ELSE p_expression(toks, i, 1)

\* for_statement : FOR ( assignment_or_empty ; expression_or_empty ;
\*                       expression_or_empty ) statement
p_for_statement(toks, i) ==
    LET after_body(a, c, u, b) ==
            IF ~b.ok THEN b
            ELSE POk(ForStatement(a.node, c.node, u.node, b.node), b.pos)
        after_update(a, c, u) ==
            IF ~u.ok THEN u
            ELSE IF PTok(toks, u.pos).type # "RPAREN" THEN PFail(u.pos)
            ELSE after_body(a, c, u, p_statement(toks, u.pos + 1))
        after_condition(a, c) ==
            IF ~c.ok THEN c
            ELSE IF PTok(toks, c.pos).type # "SEMI" THEN PFail(c.pos)
            ELSE after_update(a, c, p_expression_or_empty(toks, c.pos + 1, "RPAREN"))
        after_init(a) ==
            IF ~a.ok THEN a
            ELSE IF PTok(toks, a.pos).type # "SEMI" THEN PFail(a.pos)
            ELSE after_condition(a, p_expression_or_empty(toks, a.pos + 1, "SEMI"))
    IN  IF PTok(toks, i + 1).type # "LPAREN" THEN PFail(i + 1)
        ELSE after_init(p_assignment_or_empty(toks, i + 2))

\* function_declaration : FUNC IDENTIFIER ( parameter_list ) block
\*                      | FUNC IDENTIFIER ( ) block
p_function_declaration(toks, i) ==
    LET after_block(params, b) ==
            IF ~b.ok THEN b
            ELSE POk(FunctionDef(toks[i + 1].lex, params, b.node), b.pos)
        after_parameters(ps) ==
            IF ~ps.ok THEN PFail(ps.pos)
            ELSE IF PTok(toks, ps.pos).type # "RPAREN" THEN PFail(ps.pos)
            ELSE after_block(ps.list, p_block(toks, ps.pos + 1))
    IN  IF PTok(toks, i + 1).type # "IDENTIFIER" THEN PFail(i + 1)
        ELSE IF PTok(toks, i + 2).type # "LPAREN" THEN PFail(i + 2)
        ELSE IF PTok(toks, i + 3).type = "RPAREN"
             THEN after_block(<<>>, p_block(toks, i + 4))
             ELSE after_parameters(p_parameter_list(toks, i + 3, <<>>))

\* return_statement : RETURN expression SEMI | RETURN SEMI
p_return_statement(toks, i) ==
    LET after_value(v) ==
            IF ~v.ok THEN v
            ELSE IF PTok(toks, v.pos).type # "SEMI" THEN PFail(v.pos)
            ELSE POk(ReturnStatement(v.node), v.pos + 1)
    IN  IF PTok(toks, i + 1).type = "SEMI" THEN POk(ReturnStatement(NoneNode), i + 2)
        ELSE after_value(p_expression(toks, i + 1, 1))

\* break_statement : BREAK SEMI
p_break_statement(toks, i) ==
    IF PTok(toks, i + 1).type = "SEMI" THEN POk(ControlFlow("BREAK"), i + 2)
    ELSE PFail(i + 1)

\* continue_statement : CONTINUE SEMI
p_continue_statement(toks, i) ==
    IF PTok(toks, i + 1).type = "SEMI" THEN POk(ControlFlow("CONTINUE"), i + 2)
    ELSE PFail(i + 1)

\* assignment_statement : IDENTIFIER EQUALS expression SEMI
p_assignment_statement(toks, i) ==
    LET after_value(v) ==
            IF ~v.ok THEN v
            ELSE IF PTok(toks, v.pos).type # "SEMI" THEN PFail(v.pos)
            ELSE POk(Assignment(Identifier(toks[i].lex), v.node), v.pos + 1)
    IN  after_value(p_expression(toks, i + 2, 1))

\* expression_statement : expression SEMI
p_expression_statement(toks, i) ==
    LET after_expression(e) ==
            IF ~e.ok THEN e
            ELSE IF PTok(toks, e.pos).type # "SEMI" THEN PFail(e.pos)
            ELSE POk(ExprStatement(e.node), e.pos + 1)
    IN  after_expression(p_expression(toks, i, 1))

\* statement : expression_statement | assignment_statement | if_statement | ...
p_statement(toks, i) ==
    LET statement(t) ==
            CASE t = "IF" -> p_if_statement(toks, i)
              [] t = "WHILE" -> p_while_statement(toks, i)
              [] t = "FOR" -> p_for_statement(toks, i)
              [] t = "FUNC" -> p_function_declaration(toks, i)
              [] t = "RETURN" -> p_return_statement(toks, i)
              [] t = "BREAK" -> p_break_statement(toks, i)
              [] t = "CONTINUE" -> p_continue_statement(toks, i)
              [] t = "LBRACE" -> p_block(toks, i)
              [] t = "IDENTIFIER" /\ PTok(toks, i + 1).type = "EQUALS" ->
                   p_assignment_statement(toks, i)
              [] OTHER -> p_expression_statement(toks, i)
    IN  statement(PTok(toks, i).type)

\* statement_list : statement_list statement | statement
\* (one statement at least; ends before RBRACE or the end of input)
p_statement_list(toks, i, acc) ==
    LET after_statement(st) ==
            IF ~st.ok THEN [ok |-> FALSE, node |-> NoneNode, pos |-> st.pos, list |-> acc]
            ELSE IF PTok(toks, st.pos).type \in {"RBRACE", "$end"}
                 THEN [ok |-> TRUE, node |-> NoneNode, pos |-> st.pos,
                       list |-> Append(acc, st.node)]
                 ELSE p_statement_list(toks, st.pos, Append(acc, st.node))
    IN  after_statement(p_statement(toks, i))

\* program : statement_list ; the whole input must be consumed
p_program(toks) ==
    LET after_list(l) ==
            IF l.ok /\ l.pos = Len(toks) + 1 THEN POk(Program(l.list), l.pos)
            ELSE PFail(l.pos)
    IN  after_list(p_statement_list(toks, 1, <<>>))

(***************************************************************************)
(* Semantic analyzer (semantic_analyzer.py).  The analyzer object is the   *)
(* record [scopes, loop_depth, current_function] threaded through the      *)
(* visitors; err / msg hold a raised exception ("" while none is raised),  *)
(* ty the value the last visitor returned.  binops and calls record, for   *)
(* every visit_BinOp / visit_FunCall, what the visitor saw and did.        *)
(* Symbol is [type, params]; the type None is "None".                      *)
(***************************************************************************)
Symbol(value_type, params) == [type |-> value_type, params |-> params]

\* {} : a dict without keys
EmptyDict == [n \in {} |-> NoneV]

\* SemanticAnalyzer.__init__ / SymbolTable.__init__
\* (low is a history field: the smallest len(self.scopes) since construction)
NewAnalyzer ==
    [scopes |-> <<EmptyDict>>, loop_depth |-> 0, current_function |-> "None",
     err |-> "", msg |-> "", ty |-> "None", binops |-> <<>>, calls |-> <<>>, low |-> 1]

Raise(a, kind, msg) == [a EXCEPT !.err = kind, !.msg = msg]

Return(a, ty) == [a EXCEPT !.ty = ty]

\* a block that opens no scope of its own
push_scope_Skip(a) == a

push_scope(a) == [a EXCEPT !.scopes = Append(@, EmptyDict)]

\* self.scopes.pop(): IndexError on an empty list
pop_scope(a) ==
    IF a.scopes = <<>> THEN Raise(a, "Exception", "IndexError: pop from empty list")
    ELSE [a EXCEPT !.scopes = SubSeq(@, 1, Len(@) - 1),
                   !.low = IF Len(a.scopes) - 1 < @ THEN Len(a.scopes) - 1 ELSE @]

\* self.scopes[-1][name] = symbol: IndexError on an empty list
declare(a, name, symbol) ==
    IF a.scopes = <<>> THEN Raise(a, "Exception", "IndexError: list index out of range")
    ELSE LET top == Len(a.scopes)
             sc  == a.scopes[top]
         IN  [a EXCEPT !.scopes[top] =
                 [n \in (DOMAIN sc) \cup {name} |-> IF n = name THEN symbol ELSE sc[n]]]

\* resolve: index of the innermost scope that holds name, 0 when the code
\* raises "Use of undefined variable"
resolve(a, name) ==
    LET hits == {i \in 1..Len(a.scopes) : name \in DOMAIN a.scopes[i]}
    IN  IF hits = {} THEN 0 ELSE CHOOSE i \in hits : \A j \in hits : j <= i

\* sym.type = typ on the Symbol object resolve(name) returns
set_type(a, name, typ) ==
    LET i == resolve(a, name)
    IN  [a EXCEPT !.scopes[i][name].type = typ]

visit_Literal(a, node) ==
    LET v == node.value
    IN  Return(a, CASE v.k = "none" -> "null"
                    [] v.k = "bool" -> "bool"
                    [] v.k = "int" -> "int"
                    [] v.k = "float" -> "float"
                    [] v.k = "str" -> "string"
                    [] OTHER -> "unknown")

visit_Identifier(a, node) ==
    LET i == resolve(a, node.name)
    IN  IF i = 0 THEN Raise(a, "SemanticError", "Use of undefined variable")
        ELSE IF a.scopes[i][node.name].type = "None" THEN Return(a, "unknown")
        ELSE Return(a, a.scopes[i][node.name].type)

\* lines 140-160: the operand types after unknown-propagation and the
\* both-unknown default of the arithmetic operators
PropagatedTypes(op, lt0, rt0) ==
    LET lt1 == IF lt0 = "unknown" /\ rt0 # "unknown" THEN rt0 ELSE lt0
        rt1 == IF rt0 = "unknown" /\ lt1 # "unknown" THEN lt1 ELSE rt0
    IN  IF lt1 = "unknown" /\ rt1 = "unknown" /\ op \in {"+", "-", "*", "/", "%"}
        THEN <<"int", "int">>
        ELSE <<lt1, rt1>>

\* line 167: the condition under which '%' is rejected
ModuloRejects_And(op, lt, rt) == op = "%" /\ (lt # "int" /\ rt # "int")

ModuloRejects(op, lt, rt) == op = "%" /\ (lt # "int" \/ rt # "int")

\* lines 162-204: the checks on the propagated types; [err, msg, ty]
BinOpResult(op, lt, rt) ==
    IF op = "+" /\ ("string" \in {lt, rt}) THEN [err |-> "", msg |-> "", ty |-> "string"]
    ELSE IF ModuloRejects(op, lt, rt)
    THEN [err |-> "SemanticError", msg |-> "Modulo '%' requires integer operands", ty |-> "None"]
    ELSE IF lt \in {"int", "float"} /\ rt \in {"int", "float"}
    THEN [err |-> "", msg |-> "", ty |-> IF "float" \in {lt, rt} THEN "float" ELSE "int"]
    ELSE IF op \in {"==", "!="}
    THEN IF lt = "null" \/ rt = "null" THEN [err |-> "", msg |-> "", ty |-> "bool"]
         ELSE IF lt # rt
         THEN [err |-> "SemanticError", msg |-> "Cannot compare", ty |-> "None"]
         ELSE [err |-> "", msg |-> "", ty |-> "bool"]
    ELSE IF op \in {"<", "<=", ">", ">="}
    THEN IF lt \in {"int", "float"} /\ rt \in {"int", "float"}
         THEN [err |-> "", msg |-> "", ty |-> "bool"]
         ELSE IF lt = "string" /\ rt = "string"
         THEN [err |-> "", msg |-> "", ty |-> "bool"]
         ELSE [err |-> "SemanticError", msg |-> "Operator not supported", ty |-> "None"]
    ELSE IF op \in {"and", "or"}
    THEN IF lt = "bool" /\ rt = "bool" THEN [err |-> "", msg |-> "", ty |-> "bool"]
         ELSE [err |-> "SemanticError", msg |-> "Logical operator requires bool operands",
               ty |-> "None"]
    ELSE [err |-> "", msg |-> "", ty |-> lt]

\* visit_FunCall, lines 252-256: the exception the call itself raises
\* ("" for none), from what resolve found
FunCallCheck_NoArity(found, symtype, nargs, nparams) ==
    IF ~found THEN "Use of undefined variable"
    ELSE IF symtype # "function" THEN "is not a function"
    ELSE ""

FunCallCheck(found, symtype, nargs, nparams) ==
    IF ~found THEN "Use of undefined variable"
    ELSE IF symtype # "function" THEN "is not a function"
    ELSE IF nargs # nparams THEN "Argument count mismatch"
    ELSE ""

RECURSIVE analyze(_, _)
RECURSIVE visit_statements(_, _, _)
RECURSIVE visit_args(_, _, _)

\* for stmt in statements: self.analyze(stmt)
visit_statements(a, stmts, i) ==
    IF a.err # "" \/ i > Len(stmts) THEN a
    ELSE visit_statements(analyze(a, stmts[i]), stmts, i + 1)

visit_Program(a, node) == visit_statements(a, node.statements, 1)

\* push_scope precedes the read of node.statements, which only Block (and
\* Program) nodes have: any other node raises AttributeError
visit_Block(a, node) ==
    LET a1 == push_scope(a)
    IN  IF node.kind \notin {"Block", "Program"}
        THEN Raise(a1, "Exception", "AttributeError: no attribute 'statements'")
        ELSE LET a2 == visit_statements(a1, node.statements, 1)
             IN  IF a2.err # "" THEN a2 ELSE pop_scope(a2)

visit_Assignment(a, node) ==
    LET a1 == analyze(a, node.value)
        value_type == a1.ty
        name == node.target.name
        i == resolve(a1, name)
    IN  IF a1.err # "" THEN a1
        ELSE IF i = 0
        THEN Return(declare(a1, name, Symbol(value_type, <<>>)), value_type)
        ELSE IF value_type = "null"
        THEN Return(IF a1.scopes[i][name].type = "None"
                    THEN set_type(a1, name, "null") ELSE a1, value_type)
        ELSE Return(set_type(a1, name, value_type), value_type)

visit_BinOp(a, node) ==
    LET a1 == analyze(a, node.left)
        lt0 == a1.ty
        a2 == analyze(a1, node.right)
        rt0 == a2.ty
        op == node.op
        pt == PropagatedTypes(op, lt0, rt0)
        lt == pt[1]
        rt == pt[2]
        a3 == IF node.left.kind = "Identifier" /\ lt0 = "unknown" /\ lt # "unknown"
              THEN set_type(a2, node.left.name, lt) ELSE a2
        a4 == IF node.right.kind = "Identifier" /\ rt0 = "unknown" /\ rt # "unknown"
              THEN set_type(a3, node.right.name, rt) ELSE a3
        r == BinOpResult(op, lt, rt)
        a5 == [a4 EXCEPT !.binops = Append(@,
                  [op |-> op, lt0 |-> lt0, rt0 |-> rt0, err |-> r.err, msg |-> r.msg,
                   ty |-> r.ty])]
    IN  IF a1.err # "" THEN a1
        ELSE IF a2.err # "" THEN a2
        ELSE IF r.err # "" THEN Raise(a5, r.err, r.msg)
        ELSE Return(a5, r.ty)

visit_UnaryOp(a, node) == analyze(a, node.expr)

visit_IfStatement(a, node) ==
    LET a1 == analyze(a, node.condition)
        a2 == visit_Block(a1, node.then_body)
    IN  IF a1.err # "" THEN a1
        ELSE IF a2.err # "" \/ IsNone(node.else_body) THEN a2
        ELSE visit_Block(a2, node.else_body)

visit_WhileStatement(a, node) ==
    LET a1 == analyze(a, node.condition)
        a2 == visit_Block([a1 EXCEPT !.loop_depth = @ + 1], node.body)
    IN  IF a1.err # "" THEN a1
        ELSE IF a2.err # "" THEN a2
        ELSE [a2 EXCEPT !.loop_depth = @ - 1]

visit_ForStatement(a, node) ==
    LET a0 == push_scope(a)
        a1 == IF IsNone(node.init) THEN a0 ELSE analyze(a0, node.init)
        a2 == IF a1.err # "" \/ IsNone(node.condition) THEN a1
              ELSE analyze(a1, node.condition)
        a3 == IF a2.err # "" \/ IsNone(node.update) THEN a2
              ELSE analyze(a2, node.update)
        a4 == IF a3.err # "" THEN a3
              ELSE visit_Block([a3 EXCEPT !.loop_depth = @ + 1], node.body)
    IN  IF a4.err # "" THEN a4
        ELSE pop_scope([a4 EXCEPT !.loop_depth = @ - 1])

RECURSIVE declare_params(_, _, _)
declare_params(a, params, i) ==
    IF i > Len(params) THEN a
    ELSE declare_params(declare(a, params[i].name, Symbol("None", <<>>)), params, i + 1)

visit_FunctionDef(a, node) ==
    LET a1 == declare(a, node.name, Symbol("function", node.params))
        a2 == [push_scope(a1) EXCEPT !.current_function = node.name]
        a3 == declare_params(a2, node.params, 1)
        a4 == visit_Block(a3, node.body)
    IN  IF a4.err # "" THEN a4
        ELSE [pop_scope(a4) EXCEPT !.current_function = "None"]

\* for arg in node.args: self.analyze(arg)
visit_args(a, args, i) ==
    IF a.err # "" \/ i > Len(args) THEN a
    ELSE visit_args(analyze(a, args[i]), args, i + 1)

visit_FunCall(a, node) ==
    LET i == resolve(a, node.name.name)
        sym == IF i = 0 THEN Symbol("None", <<>>) ELSE a.scopes[i][node.name.name]
        chk == FunCallCheck(i # 0, sym.type, Len(node.args), Len(sym.params))
        entry == [found |-> i # 0, symtype |-> sym.type, nargs |-> Len(node.args),
                  nparams |-> Len(sym.params), raised |-> chk, argerr |-> ""]
        a1 == [a EXCEPT !.calls = Append(@, entry)]
        k == Len(a1.calls)
        a2 == visit_args(a1, node.args, 1)
    IN  IF chk # "" THEN Raise(a1, "SemanticError", chk)
        ELSE IF a2.err # "" THEN [a2 EXCEPT !.calls[k].argerr = a2.err]
        ELSE Return(a2, "None")

visit_ReturnStatement(a, node) ==
    IF a.current_function = "None"
    THEN Raise(a, "SemanticError", "'return' outside function")
    ELSE IF IsNone(node.value) THEN Return(a, "None")
    ELSE Return(analyze(a, node.value), "None")

visit_ControlFlow(a, node) ==
    IF a.loop_depth = 0 THEN Raise(a, "SemanticError", "used outside loop")
    ELSE IF node.keyword \notin {"BREAK", "CONTINUE"}
    THEN Raise(a, "SemanticError", "Unknown control flow")
    ELSE Return(a, "None")

\* analyze: dispatch on the class name; a class without a visit_ method
\* (ExprStatement) raises Exception("No visitor for ...")
analyze(a, node) ==
    CASE node.kind = "Program" -> Return(visit_Program(a, node), "None")
      [] node.kind = "Block" -> Return(visit_Block(a, node), "None")
      [] node.kind = "Literal" -> visit_Literal(a, node)
      [] node.kind = "Identifier" -> visit_Identifier(a, node)
      [] node.kind = "Assignment" -> visit_Assignment(a, node)
      [] node.kind = "BinOp" -> visit_BinOp(a, node)
      [] node.kind = "UnaryOp" -> visit_UnaryOp(a, node)
      [] node.kind = "IfStatement" -> Return(visit_IfStatement(a, node), "None")
      [] node.kind = "WhileStatement" -> Return(visit_WhileStatement(a, node), "None")
      [] node.kind = "ForStatement" -> Return(visit_ForStatement(a, node), "None")
      [] node.kind = "FunctionDef" -> Return(visit_FunctionDef(a, node), "None")
      [] node.kind = "FunCall" -> visit_FunCall(a, node)
      [] node.kind = "ReturnStatement" -> visit_ReturnStatement(a, node)
      [] node.kind = "ControlFlow" -> visit_ControlFlow(a, node)
      [] OTHER -> Raise(a, "Exception", "No visitor")

(***************************************************************************)
(* Code generator (stack_codegen.py).  An instruction line is the record   *)
(* [op, a, v, n]: a is the label or variable name, v the PUSH operand, n   *)
(* the argument count of CALL.  A label line "X:" has op = "LABEL".  The   *)
(* generator object is [code, label_count, loop_stack, function_code];     *)
(* err holds a raised exception, jumps records every gen_ControlFlow.      *)
(***************************************************************************)
Ins(op) == [op |-> op, a |-> "", v |-> NoneV, n |-> 0]

InsA(op, a) == [op |-> op, a |-> a, v |-> NoneV, n |-> 0]

InsPush(v) == [op |-> "PUSH", a |-> "", v |-> v, n |-> 0]

InsCall(label, argc) == [op |-> "CALL", a |-> label, v |-> NoneV, n |-> argc]

LabelLine(label) == [op |-> "LABEL", a |-> label, v |-> NoneV, n |-> 0]

\* CodeGenerator.__init__
NewGenerator ==
    [code |-> <<>>, label_count |-> 0, loop_stack |-> <<>>, function_code |-> <<>>,
     err |-> "", jumps |-> <<>>]

emit(g, instr) == [g EXCEPT !.code = Append(@, instr)]

emit_label(g, label) == emit(g, LabelLine(label))

\* new_label: the counter after the increment names the label
new_label(g, prefix) == prefix \o ToString(g.label_count + 1)

bump_label(g) == [g EXCEPT !.label_count = @ + 1]

\* opmap of gen_BinOp
opmap(op) ==
    CASE op = "+" -> "ADD"
      [] op = "-" -> "SUB"
      [] op = "*" -> "MUL"
      [] op = "/" -> "DIV"
      [] op = "%" -> "MOD"
      [] op = "<" -> "LT"
      [] op = ">" -> "GT"
      [] op = "<=" -> "LE"
      [] op = ">=" -> "GE"
      [] op = "==" -> "EQ"
      [] op = "!=" -> "NEQ"
      [] op = "&&" -> "AND"
      [] op = "||" -> "OR"

RECURSIVE generate(_, _)
RECURSIVE gen_statements(_, _, _)
RECURSIVE gen_toplevel(_, _, _, _)
RECURSIVE gen_args(_, _, _)
RECURSIVE gen_param_stores(_, _, _)

gen_statements(g, stmts, i) ==
    IF g.err # "" \/ i > Len(stmts) THEN g
    ELSE gen_statements(generate(g, stmts[i]), stmts, i + 1)

gen_Literal(g, node) == emit(g, InsPush(node.value))

gen_Identifier(g, node) == emit(g, InsA("LOAD", node.name))

gen_Assignment(g, node) ==
    LET g1 == generate(g, node.value)
    IN  IF g1.err # "" THEN g1 ELSE emit(g1, InsA("STORE", node.target.name))

gen_BinOp(g, node) ==
    LET g1 == generate(g, node.left)
        g2 == IF g1.err # "" THEN g1 ELSE generate(g1, node.right)
    IN  IF g2.err # "" THEN g2 ELSE emit(g2, Ins(opmap(node.op)))

\* a generator that compiles `!` to an instruction of its own
gen_UnaryOp_Not(g, node) ==
    LET g1 == generate(g, node.expr)
    IN  IF g1.err # "" THEN g1
        ELSE emit(g1, Ins(IF node.op = "-" THEN "NEG" ELSE "NOT"))

gen_UnaryOp(g, node) ==
    LET g1 == generate(g, node.expr)
    IN  IF g1.err # "" THEN g1
        ELSE IF node.op = "-" THEN emit(g1, Ins("NEG")) ELSE g1

gen_ExprStatement(g, node) ==
    LET g1 == generate(g, node.expr)
    IN  IF g1.err # "" THEN g1 ELSE emit(g1, Ins("POP"))

\* the two loops of gen_Program: statements that are (wantDefs) or are not
\* FunctionDefs
gen_toplevel(g, stmts, i, wantDefs) ==
    IF g.err # "" \/ i > Len(stmts) THEN g
    ELSE IF (stmts[i].kind = "FunctionDef") = wantDefs
         THEN gen_toplevel(generate(g, stmts[i]), stmts, i + 1, wantDefs)
         ELSE gen_toplevel(g, stmts, i + 1, wantDefs)

gen_Program(g, node) ==
    LET g1 == gen_toplevel(g, node.statements, 1, FALSE)
        g2 == IF g1.err # "" THEN g1 ELSE emit(g1, Ins("HALT"))
        g3 == IF g2.err # "" THEN g2 ELSE gen_toplevel(g2, node.statements, 1, TRUE)
    IN  IF g3.err # "" THEN g3
        ELSE [g3 EXCEPT !.code = @ \o g3.function_code]

gen_Block(g, node) == gen_statements(g, node.statements, 1)

gen_IfStatement(g, node) ==
    LET else_label == new_label(g, "ELSE")
        ga == bump_label(g)
        end_label == new_label(ga, "ENDIF")
        gb == bump_label(ga)
        g1 == generate(gb, node.condition)
        g2 == IF g1.err # "" THEN g1
              ELSE generate(emit(g1, InsA("JZ", else_label)), node.then_body)
        g3 == IF g2.err # "" THEN g2
              ELSE emit_label(emit(g2, InsA("JMP", end_label)), else_label)
        g4 == IF g3.err # "" \/ IsNone(node.else_body) THEN g3
              ELSE generate(g3, node.else_body)
    IN  IF g4.err # "" THEN g4 ELSE emit_label(g4, end_label)

gen_WhileStatement(g, node) ==
    LET start_label == new_label(g, "WHILE_START")
        ga == bump_label(g)
        end_label == new_label(ga, "WHILE_END")
        gb == [bump_label(ga) EXCEPT !.loop_stack = Append(@, <<end_label, start_label>>)]
        g1 == generate(emit_label(gb, start_label), node.condition)
        g2 == IF g1.err # "" THEN g1
              ELSE generate(emit(g1, InsA("JMP_IF_FALSE", end_label)), node.body)
    IN  IF g2.err # "" THEN g2
        ELSE [emit_label(emit(g2, InsA("JMP", start_label)), end_label)
                 EXCEPT !.loop_stack = SubSeq(@, 1, Len(@) - 1)]

gen_ForStatement(g, node) ==
    LET g0 == IF IsNone(node.init) THEN g ELSE generate(g, node.init)
        start_label == new_label(g0, "FOR_START")
        ga == bump_label(g0)
        end_label == new_label(ga, "FOR_END")
        gb == bump_label(ga)
        update_label == new_label(gb, "FOR_UPDATE")
        gc == [bump_label(gb) EXCEPT !.loop_stack = Append(@, <<end_label, update_label>>)]
        gd == emit_label(gc, start_label)
        g1 == IF IsNone(node.condition) THEN gd ELSE generate(gd, node.condition)
        g2 == IF g1.err # "" \/ IsNone(node.condition) THEN g1
              ELSE emit(g1, InsA("JMP_IF_FALSE", end_label))
        g3 == IF g2.err # "" THEN g2 ELSE generate(g2, node.body)
        g4 == IF g3.err # "" THEN g3 ELSE emit_label(g3, update_label)
        g5 == IF g4.err # "" \/ IsNone(node.update) THEN g4 ELSE generate(g4, node.update)
    IN  IF g0.err # "" THEN g0
        ELSE IF g5.err # "" THEN g5
        ELSE [emit_label(emit(g5, InsA("JMP", start_label)), end_label)
                 EXCEPT !.loop_stack = SubSeq(@, 1, Len(@) - 1)]

\* the parameters stored in the order of their declaration
gen_param_stores_Forward(g, params, i) ==
    [g EXCEPT !.code = @ \o [k \in 1..i |-> InsA("STORE", params[k].name)]]

\* for param in reversed(node.params): emit STORE param
gen_param_stores(g, params, i) ==
    IF i < 1 THEN g
    ELSE gen_param_stores(emit(g, InsA("STORE", params[i].name)), params, i - 1)

gen_FunctionDef(g, node) ==
    LET old_code == g.code
        g1 == emit_label([g EXCEPT !.code = <<>>], "FUNC_" \o node.name)
        g2 == gen_param_stores(g1, node.params, Len(node.params))
        g3 == gen_statements(g2, node.body.statements, 1)
        g4 == emit(emit(g3, InsPush(IntV(0))), Ins("RET"))
    IN  IF g3.err # "" THEN g3
        ELSE [g4 EXCEPT !.function_code = @ \o g4.code, !.code = old_code]

gen_args(g, args, i) ==
    IF g.err # "" \/ i > Len(args) THEN g
    ELSE gen_args(generate(g, args[i]), args, i + 1)

gen_FunCall(g, node) ==
    LET g1 == gen_args(g, node.args, 1)
    IN  IF g1.err # "" THEN g1
        ELSE emit(g1, InsCall("FUNC_" \o node.name.name, Len(node.args)))

gen_ReturnStatement(g, node) ==
    LET g1 == IF IsNone(node.value) THEN emit(g, InsPush(IntV(0)))
              ELSE generate(g, node.value)
    IN  IF g1.err # "" THEN g1 ELSE emit(g1, Ins("RET"))

\* the keyword the parser stores is compared with the lower-case "break"
gen_ControlFlow(g, node) ==
    IF g.loop_stack = <<>> THEN [g EXCEPT !.err = "Exception: used outside loop"]
    ELSE LET top == g.loop_stack[Len(g.loop_stack)]
             break_label == top[1]
             continue_label == top[2]
             target == IF node.keyword = "break" THEN break_label ELSE continue_label
         IN  [emit(g, InsA("JMP", target)) EXCEPT !.jumps = Append(@,
                 [keyword |-> node.keyword, target |-> target,
                  break_label |-> break_label, continue_label |-> continue_label])]

\* generate: dispatch on the class name
generate(g, node) ==
    CASE node.kind = "Program" -> gen_Program(g, node)
      [] node.kind = "Block" -> gen_Block(g, node)
      [] node.kind = "Literal" -> gen_Literal(g, node)
      [] node.kind = "Identifier" -> gen_Identifier(g, node)
      [] node.kind = "Assignment" -> gen_Assignment(g, node)
      [] node.kind = "BinOp" -> gen_BinOp(g, node)
      [] node.kind = "UnaryOp" -> gen_UnaryOp(g, node)
      [] node.kind = "ExprStatement" -> gen_ExprStatement(g, node)
      [] node.kind = "IfStatement" -> gen_IfStatement(g, node)
      [] node.kind = "WhileStatement" -> gen_WhileStatement(g, node)
      [] node.kind = "ForStatement" -> gen_ForStatement(g, node)
      [] node.kind = "FunctionDef" -> gen_FunctionDef(g, node)
      [] node.kind = "FunCall" -> gen_FunCall(g, node)
      [] node.kind = "ReturnStatement" -> gen_ReturnStatement(g, node)
      [] node.kind = "ControlFlow" -> gen_ControlFlow(g, node)
      [] OTHER -> [g EXCEPT !.err = "Exception: No codegen for node type"]

(***************************************************************************)
(* Python's operators on the values of the operand stack, as the VM's      *)
(* arithmetic / comparison branch applies them.  A result is [err, v]:     *)
(* err names the exception raised ("" for none).                           *)
(***************************************************************************)
\* isinstance(v, (int, float)): bool is a subclass of int
IsNumber(v) == v.k \in {"int", "float", "bool"}

Val(v) == [err |-> "", v |-> v]

Exc(name) == [err |-> name, v |-> NoneV]

\* int unless one operand is a float
Num(a, b, num, den) ==
    IF "float" \in {a.k, b.k} THEN FloatV(num, den) ELSE IntV(num \div den)

FloorDiv(p, q) == IF q > 0 THEN p \div q ELSE (-p) \div (-q)

\* not v
Falsy(v) ==
    CASE IsNumber(v) -> v.n = 0
      [] v.k = "str" -> v.s = <<>>
      [] OTHER -> TRUE

RECURSIVE SeqLess(_, _)
SeqLess(x, y) ==
    IF y = <<>> THEN FALSE
    ELSE IF x = <<>> THEN TRUE
    ELSE IF Head(x) # Head(y) THEN Head(x) < Head(y)
    ELSE SeqLess(Tail(x), Tail(y))

RECURSIVE Repeat(_, _)
Repeat(x, i) == IF i <= 0 THEN <<>> ELSE x \o Repeat(x, i - 1)

PyAdd(a, b) == Val(Num(a, b, a.n * b.d + b.n * a.d, a.d * b.d))

PySub(a, b) == Val(Num(a, b, a.n * b.d - b.n * a.d, a.d * b.d))

PyMul(a, b) ==
    CASE IsNumber(a) /\ IsNumber(b) -> Val(Num(a, b, a.n * b.n, a.d * b.d))
      [] a.k = "str" /\ b.k \in {"int", "bool"} -> Val(StrV(Repeat(a.s, b.n)))
      [] b.k = "str" /\ a.k \in {"int", "bool"} -> Val(StrV(Repeat(b.s, a.n)))
      [] OTHER -> Exc("TypeError")

\* true division: the result is a float
PyDiv(a, b) ==
    IF ~(IsNumber(a) /\ IsNumber(b)) THEN Exc("TypeError")
    ELSE IF b.n = 0 THEN Exc("ZeroDivisionError")
    ELSE IF b.n > 0 THEN Val(FloatV(a.n * b.d, a.d * b.n))
    ELSE Val(FloatV(-(a.n * b.d), a.d * (-b.n)))

\* a - b * floor(a / b); a str on the left is %-formatting, which raises
\* TypeError for an operand that is no tuple or mapping
PyMod(a, b) ==
    IF ~(IsNumber(a) /\ IsNumber(b)) THEN Exc("TypeError")
    ELSE IF b.n = 0 THEN Exc("ZeroDivisionError")
    ELSE LET q == FloorDiv(a.n * b.d, a.d * b.n)
         IN  Val(Num(a, b, a.n * b.d - q * b.n * a.d, a.d * b.d))

PyLess(a, b) ==
    CASE IsNumber(a) /\ IsNumber(b) -> Val(BoolV(a.n * b.d < b.n * a.d))
      [] a.k = "str" /\ b.k = "str" -> Val(BoolV(SeqLess(a.s, b.s)))
      [] OTHER -> Exc("TypeError")

PyEq(a, b) ==
    CASE IsNumber(a) /\ IsNumber(b) -> a.n * b.d = b.n * a.d
      [] a.k = "str" /\ b.k = "str" -> a.s = b.s
      [] OTHER -> a.k = b.k

PyLessEq(a, b) ==
    LET l == PyLess(a, b)
    IN  IF l.err # "" THEN l ELSE Val(BoolV(l.v.n = 1 \/ PyEq(a, b)))

\* lines 75-94: op applied to a (popped second) and b (popped first)
Arith(op, a, b) ==
    CASE op = "ADD" -> IF ~(IsNumber(a) /\ IsNumber(b)) THEN Exc("RuntimeError: Cannot add")
                       ELSE PyAdd(a, b)
      [] op = "SUB" -> IF ~(IsNumber(a) /\ IsNumber(b))
                       THEN Exc("RuntimeError: Cannot subtract")
                       ELSE PySub(a, b)
      [] op = "MUL" -> PyMul(a, b)
      [] op = "DIV" -> PyDiv(a, b)
      [] op = "MOD" -> PyMod(a, b)
      [] op = "GE" -> PyLessEq(b, a)
      [] op = "GT" -> PyLess(b, a)
      [] op = "LE" -> PyLessEq(a, b)
      [] op = "LT" -> PyLess(a, b)
      [] op = "EQ" -> Val(BoolV(PyEq(a, b)))
      [] op = "NE" -> Val(BoolV(~PyEq(a, b)))
      [] op = "AND" -> Val(IF Falsy(a) THEN a ELSE b)
      [] op = "OR" -> Val(IF Falsy(a) THEN b ELSE a)

\* line 46: the opcodes of the arithmetic / comparison branch
ArithOps == {"ADD", "SUB", "MUL", "DIV", "MOD", "GE", "GT", "LE", "LT", "EQ", "NE",
             "AND", "OR"}

\* PUSH: the operand text f"PUSH {value}" parsed back (lines 27-36): digits
\* give an int, a decimal a float, a double-quoted text a str without the
\* quotes; any other text (None, True, False) is pushed as it stands.
\* The numbers of the literals and of "PUSH 0" carry no sign.
PushOperand(v) ==
    CASE v.k \in {"int", "float", "str"} -> v
      [] v.k = "none" -> StrV(<<78, 111, 110, 101>>)
      [] v.k = "bool" -> StrV(IF v.n = 1 THEN <<84, 114, 117, 101>>
                              ELSE <<70, 97, 108, 115, 101>>)

\* _map_labels: label text -> index of its line (the last line wins)
MapLabels(bytecode) ==
    LET names == {bytecode[i].a : i \in {j \in 1..Len(bytecode) : bytecode[j].op = "LABEL"}}
    IN  [l \in names |->
            CHOOSE i \in 1..Len(bytecode) :
                /\ bytecode[i].op = "LABEL" /\ bytecode[i].a = l
                /\ \A j \in 1..Len(bytecode) :
                      (bytecode[j].op = "LABEL" /\ bytecode[j].a = l) => j <= i]

(***************************************************************************)
(* State.  code is the source handed to run_pipeline, as tokens; pc is the *)
(* stage the driver is at; error_flag and ast_root are the parser's flag   *)
(* and result; analyzer and gen are the SemanticAnalyzer and CodeGenerator *)
(* objects after their run; bytecode, stack, vars, ip, labels, call_stack  *)
(* are the StackMachine's fields.  halted records the break out of the run *)
(* loop, raised the exception that left the stage, steps the number of     *)
(* instructions the VM has executed, result what the driver printed last.  *)
(***************************************************************************)
VARIABLES code, pc, error_flag, ast_root, analyzer, gen,
          bytecode, stack, vars, ip, labels, call_stack, halted, raised, steps, result

vars_all == <<code, pc, error_flag, ast_root, analyzer, gen,
              bytecode, stack, vars, ip, labels, call_stack, halted, raised, steps, result>>

vm_vars == <<bytecode, stack, vars, ip, labels, call_stack, halted, steps>>

\* the longest run of the VM that is followed
MaxSteps == 80

(***************************************************************************)
(* Stack machine (stack_interpreter.py).  m is the machine                 *)
(* [bytecode, stack, vars, ip, labels, call_stack, halted, raised]; ip is  *)
(* the 1-based index of the next line to fetch (Python's ip + 1).          *)
(***************************************************************************)
\* StackMachine.__init__
NewMachine(bc) ==
    [bytecode |-> bc, stack |-> <<>>, vars |-> EmptyDict, ip |-> 1,
     labels |-> MapLabels(bc), call_stack |-> <<>>, halted |-> FALSE, raised |-> ""]

Top(st) == st[Len(st)]

Pop(st) == SubSeq(st, 1, Len(st) - 1)

\* self.ip = self.labels[label]
Jump(m, label) ==
    IF label \in DOMAIN m.labels THEN [m EXCEPT !.ip = m.labels[label]]
    ELSE [m EXCEPT !.raised = "KeyError"]

\* self.vars[var] = value
SetVar(vs, var, value) ==
    [n \in (DOMAIN vs) \cup {var} |-> IF n = var THEN value ELSE vs[n]]

\* one iteration of the while loop of run(); m0 is the machine at the top
\* of the loop, with ip inside the bytecode
RunStep(m0) ==
    LET instr == m0.bytecode[m0.ip]
        m == [m0 EXCEPT !.ip = @ + 1]
        op == instr.op
    IN  CASE op = "LABEL" -> m
          [] op = "HALT" -> [m EXCEPT !.halted = TRUE]
          [] op = "PUSH" -> [m EXCEPT !.stack = Append(@, PushOperand(instr.v))]
          [] op = "LOAD" ->
               [m EXCEPT !.stack = Append(@, IF instr.a \in DOMAIN m.vars
                                             THEN m.vars[instr.a] ELSE IntV(0))]
          [] op = "STORE" ->
               IF m.stack = <<>> THEN [m EXCEPT !.raised = "IndexError"]
               ELSE [m EXCEPT !.vars = SetVar(@, instr.a, Top(m.stack)),
                              !.stack = Pop(@)]
          [] op \in ArithOps ->
               IF Len(m.stack) < 2 THEN [m EXCEPT !.stack = <<>>, !.raised = "IndexError"]
               ELSE LET b == Top(m.stack)
                        a == Top(Pop(m.stack))
                        r == Arith(op, a, b)
                    IN  IF r.err # ""
                        THEN [m EXCEPT !.stack = Pop(Pop(@)), !.raised = r.err]
                        ELSE [m EXCEPT !.stack = Append(Pop(Pop(@)), r.v)]
          [] op \in {"JZ", "JMP_IF_FALSE"} ->
               IF m.stack = <<>> THEN [m EXCEPT !.raised = "IndexError"]
               ELSE IF Falsy(Top(m.stack))
               THEN Jump([m EXCEPT !.stack = Pop(@)], instr.a)
               ELSE [m EXCEPT !.stack = Pop(@)]
          [] op = "JMP" -> Jump(m, instr.a)
          [] op = "CALL" -> Jump([m EXCEPT !.call_stack = Append(@, m.ip)], instr.a)
          [] op = "RET" ->
               IF m.call_stack = <<>> THEN [m EXCEPT !.halted = TRUE]
               ELSE [m EXCEPT !.ip = Top(m.call_stack), !.call_stack = Pop(@)]
          [] OTHER -> [m EXCEPT !.raised = "Exception: Unknown instruction"]

Machine ==
    [bytecode |-> bytecode, stack |-> stack, vars |-> vars, ip |-> ip,
     labels |-> labels, call_stack |-> call_stack, halted |-> halted, raised |-> ""]

\* the while condition of run() alone, as if HALT did not leave the loop
Running_IgnoreHalt == pc = "run" /\ ip <= Len(bytecode)

\* the while condition of run() and the breaks out of it
Running == pc = "run" /\ ~halted /\ ip <= Len(bytecode)

(***************************************************************************)
(* Driver (main.py, run_pipeline) and the stages it sequences.             *)
(***************************************************************************)
\* Parser.parse: p_error sets error_flag, and nothing clears it.  After a
\* syntax error the driver stops whatever tree yacc's recovery returns, so
\* None stands for it.
Parse ==
    /\ pc = "parse"
    /\ LET r == p_program(code)
       IN  /\ ast_root' = r.node
           /\ error_flag' = (error_flag \/ ~r.ok)
           /\ IF IsNone(r.node) \/ error_flag'
              THEN pc' = "done" /\ result' = "Parsing FAILED"
              ELSE pc' = "analyze" /\ result' = "AST Visualization"
    /\ UNCHANGED <<code, analyzer, gen, raised>>
    /\ UNCHANGED vm_vars

\* lines 35-42: a SemanticError is caught and printed; any other exception
\* leaves run_pipeline
Analyze ==
    /\ pc = "analyze"
    /\ analyzer' = analyze(NewAnalyzer, ast_root)
    /\ IF analyzer'.err = "Exception"
       THEN pc' = "done" /\ raised' = analyzer'.msg /\ result' = "Crash during processing"
       ELSE /\ pc' = "generate"
            /\ raised' = raised
            /\ result' = IF analyzer'.err = "" THEN "No semantic errors"
                         ELSE "Semantic error"
    /\ UNCHANGED <<code, error_flag, ast_root, gen>>
    /\ UNCHANGED vm_vars

\* lines 46-53: CodeGenerator().generate(ast_root), StackMachine(bytecode)
Generate ==
    /\ pc = "generate"
    /\ gen' = generate(NewGenerator, ast_root)
    /\ IF gen'.err # ""
       THEN /\ pc' = "done" /\ raised' = gen'.err /\ result' = "Crash during processing"
            /\ UNCHANGED <<bytecode, labels>>
       ELSE /\ pc' = "run" /\ raised' = raised /\ result' = "Code Generation"
            /\ bytecode' = gen'.code
            /\ labels' = MapLabels(gen'.code)
    /\ UNCHANGED <<code, error_flag, ast_root, analyzer, stack, vars, ip, call_stack,
                   halted, steps>>

\* one instruction of vm.run()
VMStep ==
    /\ Running
    /\ steps < MaxSteps
    /\ LET m == RunStep(Machine)
       IN  /\ stack' = m.stack
           /\ vars' = m.vars
           /\ ip' = m.ip
           /\ call_stack' = m.call_stack
           /\ halted' = m.halted
           /\ steps' = steps + 1
           /\ IF m.raised # ""
              THEN pc' = "done" /\ raised' = m.raised /\ result' = "Crash during processing"
              ELSE UNCHANGED <<pc, raised, result>>
    /\ UNCHANGED <<code, error_flag, ast_root, analyzer, gen, bytecode, labels>>

\* a return of self.vars from inside the run loop
VMReturn_Anytime ==
    /\ pc = "run"
    /\ pc' = "done"
    /\ result' = "EXECUTION RESULT"
    /\ UNCHANGED <<code, error_flag, ast_root, analyzer, gen, raised>>
    /\ UNCHANGED vm_vars

\* vm.run() returns self.vars and the driver prints them
VMReturn ==
    /\ pc = "run"
    /\ ~(~halted /\ ip <= Len(bytecode))
    /\ pc' = "done"
    /\ result' = "EXECUTION RESULT"
    /\ UNCHANGED <<code, error_flag, ast_root, analyzer, gen, raised>>
    /\ UNCHANGED vm_vars

(***************************************************************************)
(* Source programs.  Strings are written by their code points.             *)
(***************************************************************************)

AssignStmt(name, expr) == <<ID(name), Punct("=")>> \o expr \o <<Punct(";")>>

\* x = 2 + 3 * 4;
SrcArith == AssignStmt("x", <<NUM(2), OP("+"), NUM(3), OP("*"), NUM(4)>>)

\* x = 10; if (x > 5) { y = 1; } else { y = 0; }
SrcIfElse ==
    AssignStmt("x", <<NUM(10)>>)
    \o <<Kw("if"), Punct("("), ID("x"), OP(">"), NUM(5), Punct(")"), Punct("{")>> \o AssignStmt("y", <<NUM(1)>>)
    \o <<Punct("}"), Kw("else"), Punct("{")>> \o AssignStmt("y", <<NUM(0)>>) \o <<Punct("}")>>

\* s = 0; i = 1; while (i <= 5) { s = s + i; i = i + 1; }
SrcWhileSum ==
    AssignStmt("s", <<NUM(0)>>) \o AssignStmt("i", <<NUM(1)>>)
    \o <<Kw("while"), Punct("("), ID("i"), OP("<="), NUM(5), Punct(")"), Punct("{")>>
    \o AssignStmt("s", <<ID("s"), OP("+"), ID("i")>>)
    \o AssignStmt("i", <<ID("i"), OP("+"), NUM(1)>>) \o <<Punct("}")>>

\* for (i = 0; i < 10; i = i + 1) { if (i == 3) { break; } } r = i;
SrcForBreak ==
    <<Kw("for"), Punct("("), ID("i"), Punct("="), NUM(0), Punct(";"), ID("i"), OP("<"), NUM(10), Punct(";"),
      ID("i"), Punct("="), ID("i"), OP("+"), NUM(1), Punct(")"), Punct("{"),
      Kw("if"), Punct("("), ID("i"), OP("=="), NUM(3), Punct(")"), Punct("{"), Kw("break"), Punct(";"), Punct("}"), Punct("}")>>
    \o AssignStmt("r", <<ID("i")>>)

\* func add(a, b) { return a + b; } z = add(7, 35);
SrcFuncAdd ==
    <<Kw("func"), ID("add"), Punct("("), ID("a"), Punct(","), ID("b"), Punct(")"), Punct("{"),
      Kw("return"), ID("a"), OP("+"), ID("b"), Punct(";"), Punct("}")>>
    \o AssignStmt("z", <<ID("add"), Punct("("), NUM(7), Punct(","), NUM(35), Punct(")")>>)

\* x = "foo"; y = x % 2;
SrcModString ==
    AssignStmt("x", <<STR(<<102, 111, 111>>)>>) \o AssignStmt("y", <<ID("x"), OP("%"), NUM(2)>>)

\* 1 + 2; y = 7;
SrcExprStmt == <<NUM(1), OP("+"), NUM(2), Punct(";")>> \o AssignStmt("y", <<NUM(7)>>)

\* func f() { return 1; } f(); y = 7;
SrcCallStmt ==
    <<Kw("func"), ID("f"), Punct("("), Punct(")"), Punct("{"), Kw("return"), NUM(1), Punct(";"), Punct("}"), ID("f"), Punct("("), Punct(")"), Punct(";")>>
    \o AssignStmt("y", <<NUM(7)>>)

\* x = -5;
SrcNeg == AssignStmt("x", <<OP("-"), NUM(5)>>)

\* y = 1; x = !y;
SrcNot == AssignStmt("y", <<NUM(1)>>) \o AssignStmt("x", <<OP("!"), ID("y")>>)

\* i = 0; while (i < 3) { i = i + 1; if (i == 2) { break; } } r = i;
SrcWhileBreak ==
    AssignStmt("i", <<NUM(0)>>)
    \o <<Kw("while"), Punct("("), ID("i"), OP("<"), NUM(3), Punct(")"), Punct("{")>>
    \o AssignStmt("i", <<ID("i"), OP("+"), NUM(1)>>)
    \o <<Kw("if"), Punct("("), ID("i"), OP("=="), NUM(2), Punct(")"), Punct("{"), Kw("break"), Punct(";"), Punct("}"), Punct("}")>>
    \o AssignStmt("r", <<ID("i")>>)

\* i = 0; s = 0; while (i < 3) { i = i + 1; if (i == 2) { continue; } s = s + i; }
SrcWhileContinue ==
    AssignStmt("i", <<NUM(0)>>) \o AssignStmt("s", <<NUM(0)>>)
    \o <<Kw("while"), Punct("("), ID("i"), OP("<"), NUM(3), Punct(")"), Punct("{")>>
    \o AssignStmt("i", <<ID("i"), OP("+"), NUM(1)>>)
    \o <<Kw("if"), Punct("("), ID("i"), OP("=="), NUM(2), Punct(")"), Punct("{"), Kw("continue"), Punct(";"), Punct("}")>>
    \o AssignStmt("s", <<ID("s"), OP("+"), ID("i")>>) \o <<Punct("}")>>

\* s = 0; for (i = 0; i < 3; ) { i = i + 1; if (i == 2) { continue; } s = s + i; }
SrcForContinue ==
    AssignStmt("s", <<NUM(0)>>)
    \o <<Kw("for"), Punct("("), ID("i"), Punct("="), NUM(0), Punct(";"), ID("i"), OP("<"), NUM(3), Punct(";"), Punct(")"), Punct("{")>>
    \o AssignStmt("i", <<ID("i"), OP("+"), NUM(1)>>)
    \o <<Kw("if"), Punct("("), ID("i"), OP("=="), NUM(2), Punct(")"), Punct("{"), Kw("continue"), Punct(";"), Punct("}")>>
    \o AssignStmt("s", <<ID("s"), OP("+"), ID("i")>>) \o <<Punct("}")>>

\* for (i = 0; i < 3; ) { i = i + 1; if (i == 2) { break; } } r = i;
SrcForBreakNoUpdate ==
    <<Kw("for"), Punct("("), ID("i"), Punct("="), NUM(0), Punct(";"), ID("i"), OP("<"), NUM(3), Punct(";"), Punct(")"), Punct("{")>>
    \o AssignStmt("i", <<ID("i"), OP("+"), NUM(1)>>)
    \o <<Kw("if"), Punct("("), ID("i"), OP("=="), NUM(2), Punct(")"), Punct("{"), Kw("break"), Punct(";"), Punct("}"), Punct("}")>>
    \o AssignStmt("r", <<ID("i")>>)

\* j = 0; while (j < 2) { j = j + 1; for (i = 0; i < 2; ) { i = i + 1; break; } }
SrcNestedBreak ==
    AssignStmt("j", <<NUM(0)>>)
    \o <<Kw("while"), Punct("("), ID("j"), OP("<"), NUM(2), Punct(")"), Punct("{")>>
    \o AssignStmt("j", <<ID("j"), OP("+"), NUM(1)>>)
    \o <<Kw("for"), Punct("("), ID("i"), Punct("="), NUM(0), Punct(";"), ID("i"), OP("<"), NUM(2), Punct(";"), Punct(")"), Punct("{")>>
    \o AssignStmt("i", <<ID("i"), OP("+"), NUM(1)>>)
    \o <<Kw("break"), Punct(";"), Punct("}"), Punct("}")>>

Scenarios ==
    {SrcArith, SrcIfElse, SrcWhileSum, SrcForBreak, SrcFuncAdd, SrcModString,
     SrcExprStmt, SrcCallStmt, SrcNeg, SrcNot, SrcWhileBreak, SrcWhileContinue,
     SrcForContinue, SrcForBreakNoUpdate, SrcNestedBreak,
     \* break;   (outside any loop)
     <<Kw("break"), Punct(";")>>,
     \* x = 1 +;   (a syntax error)
     <<ID("x"), Punct("="), NUM(1), OP("+"), Punct(";")>>,
     \* y = 0; x = !y;
     AssignStmt("y", <<NUM(0)>>) \o AssignStmt("x", <<OP("!"), ID("y")>>),
     \* c = 1; if (!c) { y = 1; }
     AssignStmt("c", <<NUM(1)>>)
     \o <<Kw("if"), Punct("("), OP("!"), ID("c"), Punct(")"), Punct("{")>>
     \o AssignStmt("y", <<NUM(1)>>) \o <<Punct("}")>>,
     \* c = 0; if (!c) { y = 1; }
     AssignStmt("c", <<NUM(0)>>)
     \o <<Kw("if"), Punct("("), OP("!"), ID("c"), Punct(")"), Punct("{")>>
     \o AssignStmt("y", <<NUM(1)>>) \o <<Punct("}")>>,
     \* x = 1; if (x > 0) y = 1;
     AssignStmt("x", <<NUM(1)>>)
     \o <<Kw("if"), Punct("("), ID("x"), OP(">"), NUM(0), Punct(")")>>
     \o AssignStmt("y", <<NUM(1)>>),
     \* x = 1; while (x > 1) x = 0;
     AssignStmt("x", <<NUM(1)>>)
     \o <<Kw("while"), Punct("("), ID("x"), OP(">"), NUM(1), Punct(")")>>
     \o AssignStmt("x", <<NUM(0)>>),
     \* func f(n) { for (i = 0; i < 2; i + 1) { n = n + 1; i = i + 1; } return n; }
     \* z = f(1);
     <<Kw("func"), ID("f"), Punct("("), ID("n"), Punct(")"), Punct("{"),
       Kw("for"), Punct("("), ID("i"), Punct("="), NUM(0), Punct(";"),
       ID("i"), OP("<"), NUM(2), Punct(";"), ID("i"), OP("+"), NUM(1), Punct(")"),
       Punct("{")>>
     \o AssignStmt("n", <<ID("n"), OP("+"), NUM(1)>>)
     \o AssignStmt("i", <<ID("i"), OP("+"), NUM(1)>>)
     \o <<Punct("}"), Kw("return"), ID("n"), Punct(";"), Punct("}")>>
     \o AssignStmt("z", <<ID("f"), Punct("("), NUM(1), Punct(")")>>),
     \* func g(a) { return a + 1; } func f(a) { t = g(a); return t; } z = f(1);
     <<Kw("func"), ID("g"), Punct("("), ID("a"), Punct(")"), Punct("{"),
       Kw("return"), ID("a"), OP("+"), NUM(1), Punct(";"), Punct("}"),
       Kw("func"), ID("f"), Punct("("), ID("a"), Punct(")"), Punct("{")>>
     \o AssignStmt("t", <<ID("g"), Punct("("), ID("a"), Punct(")")>>)
     \o <<Kw("return"), ID("t"), Punct(";"), Punct("}")>>
     \o AssignStmt("z", <<ID("f"), Punct("("), NUM(1), Punct(")")>>),
     \* i = 0; while (i < 2) { i = i + 1; func f() { continue; } z = f(); }
     AssignStmt("i", <<NUM(0)>>)
     \o <<Kw("while"), Punct("("), ID("i"), OP("<"), NUM(2), Punct(")"), Punct("{")>>
     \o AssignStmt("i", <<ID("i"), OP("+"), NUM(1)>>)
     \o <<Kw("func"), ID("f"), Punct("("), Punct(")"), Punct("{"),
          Kw("continue"), Punct(";"), Punct("}")>>
     \o AssignStmt("z", <<ID("f"), Punct("("), Punct(")")>>) \o <<Punct("}")>>,
     \* func f(a) { if (a < 1) { return 0; } t = f(a - 1); return t + a; } z = f(2);
     <<Kw("func"), ID("f"), Punct("("), ID("a"), Punct(")"), Punct("{"),
       Kw("if"), Punct("("), ID("a"), OP("<"), NUM(1), Punct(")"), Punct("{"),
       Kw("return"), NUM(0), Punct(";"), Punct("}")>>
     \o AssignStmt("t", <<ID("f"), Punct("("), ID("a"), OP("-"), NUM(1), Punct(")")>>)
     \o <<Kw("return"), ID("t"), OP("+"), ID("a"), Punct(";"), Punct("}")>>
     \o AssignStmt("z", <<ID("f"), Punct("("), NUM(2), Punct(")")>>),
     \* func f(a) { return a; } func f(a, b) { return b; } z = f(1, 2);
     <<Kw("func"), ID("f"), Punct("("), ID("a"), Punct(")"), Punct("{"),
       Kw("return"), ID("a"), Punct(";"), Punct("}"),
       Kw("func"), ID("f"), Punct("("), ID("a"), Punct(","), ID("b"), Punct(")"),
       Punct("{"), Kw("return"), ID("b"), Punct(";"), Punct("}")>>
     \o AssignStmt("z", <<ID("f"), Punct("("), NUM(1), Punct(","), NUM(2), Punct(")")>>)}

BinOps == {"+", "-", "*", "/", "%", "<", ">", "<=", ">=", "==", "!=", "&&", "||"}

\* operands of the statically typed kinds: int, float, string and bool
\* (a comparison of two strings)
LiteralOperands ==
    {<<NUM(1)>>, <<NUM(2)>>, <<FLT(5, 2)>>, <<STR(<<97>>)>>,
     <<Punct("("), STR(<<97>>), OP("=="), STR(<<98>>), Punct(")")>>}

\* x = A op B;
SrcBinOp(A, op, B) == AssignStmt("x", A \o <<OP(op)>> \o B)

\* inside a function: parameters (no type yet) and a call as operands too
BodyOperands ==
    (LiteralOperands \ {<<NUM(2)>>}) \cup {<<ID("p")>>, <<ID("q")>>, <<ID("f"), Punct("("), Punct(")")>>}

\* func f() { return 1; } func g(p, q) { x = A op B; }
SrcBodyBinOp(A, op, B) ==
    <<Kw("func"), ID("f"), Punct("("), Punct(")"), Punct("{"), Kw("return"), NUM(1), Punct(";"), Punct("}"),
      Kw("func"), ID("g"), Punct("("), ID("p"), Punct(","), ID("q"), Punct(")"), Punct("{")>>
    \o SrcBinOp(A, op, B) \o <<Punct("}")>>

BinOpSources ==
    {SrcBinOp(A, op, B) : <<A, op, B>> \in LiteralOperands \X BinOps \X LiteralOperands}
    \cup {SrcBodyBinOp(A, op, B) : <<A, op, B>> \in BodyOperands \X BinOps \X BodyOperands}

\* the largest number of parameters and of arguments of the call sources
MaxArity == 2

ParamNames == <<"a", "b", "c", "d", "e">>

RECURSIVE CommaList(_, _)
CommaList(items, i) ==
    IF i > Len(items) THEN <<>>
    ELSE (IF i > 1 THEN <<Punct(",")>> ELSE <<>>) \o items[i] \o CommaList(items, i + 1)

\* func f(a, b, ...) { return 0; }  with k parameters
SrcFuncDef(k) ==
    <<Kw("func"), ID("f"), Punct("(")>> \o CommaList([i \in 1..k |-> <<ID(ParamNames[i])>>], 1)
    \o <<Punct(")"), Punct("{"), Kw("return"), NUM(0), Punct(";"), Punct("}")>>

\* x = callee(arg, arg, ...);  with m arguments
SrcCall(callee, arg, m) ==
    AssignStmt("x", <<ID(callee), Punct("(")>> \o CommaList([i \in 1..m |-> arg], 1) \o <<Punct(")")>>)

\* arguments: a literal, an undefined name, a nested call without arguments
CallArgs == {<<NUM(1)>>, <<ID("u")>>, <<ID("f"), Punct("("), Punct(")")>>}

CallSources ==
    \* func f(...) {...} x = f(...);
    {SrcFuncDef(k) \o SrcCall("f", arg, m) :
        <<k, m, arg>> \in (0..MaxArity) \X (0..MaxArity) \X CallArgs}
    \* x = f(...);  f undefined        f = 1; x = f(...);  f not a function
    \cup {SrcCall("f", <<NUM(1)>>, m) : m \in 0..MaxArity}
    \cup {AssignStmt("f", <<NUM(1)>>) \o SrcCall("f", <<NUM(1)>>, m) : m \in 0..MaxArity}
    \* func f(...) {...} h = f; x = h(...);  the name of a function copied
    \cup {SrcFuncDef(k) \o AssignStmt("h", <<ID("f")>>) \o SrcCall("h", <<NUM(1)>>, m) :
             <<k, m>> \in (0..MaxArity) \X (0..MaxArity)}
    \* func f(...) {...} f = 1; x = f(...);  the function's name reassigned
    \cup {SrcFuncDef(k) \o AssignStmt("f", <<NUM(1)>>) \o SrcCall("f", <<NUM(1)>>, m) :
             <<k, m>> \in (0..MaxArity) \X (0..MaxArity)}

Sources == Scenarios \cup BinOpSources \cup CallSources

Init ==
    /\ code \in Sources
    /\ pc = "parse"
    /\ error_flag = FALSE
    /\ ast_root = NoneNode
    /\ analyzer = NewAnalyzer
    /\ gen = NewGenerator
    /\ bytecode = <<>>
    /\ stack = <<>>
    /\ vars = EmptyDict
    /\ ip = 1
    /\ labels = EmptyDict
    /\ call_stack = <<>>
    /\ halted = FALSE
    /\ raised = ""
    /\ steps = 0
    /\ result = ""

Next == Parse \/ Analyze \/ Generate \/ VMStep \/ VMReturn

Spec == Init /\ [][Next]_vars_all

(***************************************************************************)
(* The generator and the machine applied to a parsed program, as the       *)
(* compiler package exports them (CodeGenerator().generate(ast), then      *)
(* StackMachine(bytecode).run()), without the analyzer in front.           *)
(***************************************************************************)
InitStages ==
    /\ code \in {src \in Sources : p_program(src).ok}
    /\ pc = "generate"
    /\ error_flag = FALSE
    /\ ast_root = p_program(code).node
    /\ analyzer = NewAnalyzer
    /\ gen = NewGenerator
    /\ bytecode = <<>>
    /\ stack = <<>>
    /\ vars = EmptyDict
    /\ ip = 1
    /\ labels = EmptyDict
    /\ call_stack = <<>>
    /\ halted = FALSE
    /\ raised = ""
    /\ steps = 0
    /\ result = ""

StagesSpec == InitStages /\ [][Generate \/ VMStep \/ VMReturn]_vars_all

(***************************************************************************)
(* The machine alone: StackMachine(bytecode).run() on any short list of    *)
(* instruction lines, whether a generator could emit it or not.            *)
(***************************************************************************)
\* the longest instruction list
MaxCode == 3

\* instruction lines: PUSH 1, STORE x, ADD, JZ L, JMP L, L:, CALL L 0, RET,
\* HALT and the line POP the machine does not know
Instructions ==
    {InsPush(IntV(1)), InsA("STORE", "x"), Ins("ADD"), InsA("JZ", "L"), InsA("JMP", "L"),
     LabelLine("L"), InsCall("L", 0), Ins("RET"), Ins("HALT"), Ins("POP")}

Bytecodes == UNION {[1..n -> Instructions] : n \in 0..MaxCode}

InitMachine ==
    /\ code = <<>>
    /\ pc = "run"
    /\ error_flag = FALSE
    /\ ast_root = NoneNode
    /\ analyzer = NewAnalyzer
    /\ gen = NewGenerator
    /\ bytecode \in Bytecodes
    /\ stack = <<>>
    /\ vars = EmptyDict
    /\ ip = 1
    /\ labels = MapLabels(bytecode)
    /\ call_stack = <<>>
    /\ halted = FALSE
    /\ raised = ""
    /\ steps = 0
    /\ result = ""

MachineSpec == InitMachine /\ [][VMStep \/ VMReturn]_vars_all

(***************************************************************************)
(* The driver's main block: one Parser object, handed to test_file for one *)
(* file after the other.  Each run_pipeline call has fresh locals; the     *)
(* parser, and with it error_flag, is the same object throughout.          *)
(***************************************************************************)
NextFile ==
    /\ pc = "done"
    /\ \E text \in Scenarios : code' = text
    /\ pc' = "parse"
    /\ ast_root' = NoneNode
    /\ analyzer' = NewAnalyzer
    /\ gen' = NewGenerator
    /\ bytecode' = <<>>
    /\ stack' = <<>>
    /\ vars' = EmptyDict
    /\ ip' = 1
    /\ labels' = EmptyDict
    /\ call_stack' = <<>>
    /\ halted' = FALSE
    /\ raised' = ""
    /\ steps' = 0
    /\ result' = ""
    /\ UNCHANGED error_flag

DriverSpec == Init /\ [][Next \/ NextFile]_vars_all

(***************************************************************************)
(* Properties.                                                             *)
(***************************************************************************)
\* the instruction whose dispatch raised "Unknown instruction"
UnknownOp ==
    IF raised = "Exception: Unknown instruction" /\ ip > 1 /\ ip - 1 <= Len(bytecode)
    THEN bytecode[ip - 1].op ELSE ""

\* the operand types of a BinOp as section 4.3 of the specification derives
\* them: one unknown side takes the other side's type, two unknown sides of
\* an arithmetic operator become int
TypesAfterPropagation(op, lt0, rt0) ==
    IF lt0 = "unknown" /\ rt0 # "unknown" THEN <<rt0, rt0>>
    ELSE IF rt0 = "unknown" /\ lt0 # "unknown" THEN <<lt0, lt0>>
    ELSE IF lt0 = "unknown" /\ rt0 = "unknown" /\ op \in {"+", "-", "*", "/", "%"}
    THEN <<"int", "int">>
    ELSE <<lt0, rt0>>

\* C1: when the analyzer raised SemanticError, the code generator is not
\* invoked and the VM executes no instruction.
C1_SemanticErrorStopsPipeline ==
    analyzer.err = "SemanticError" => (gen = NewGenerator /\ steps = 0)

\* C2: every break the parser produced is compiled to a JMP to the END
\* label of the innermost loop, every continue to a JMP to its continue
\* label.
C2_BreakJumpsToEnd ==
    \A i \in 1..Len(gen.jumps) :
        /\ gen.jumps[i].keyword = "BREAK" => gen.jumps[i].target = gen.jumps[i].break_label
        /\ gen.jumps[i].keyword = "CONTINUE" =>
               gen.jumps[i].target = gen.jumps[i].continue_label

\* C3: the for-loop-with-break scenario passes every stage without a syntax
\* error or SemanticError and ends with r = 3.
C3_ForBreakScenario ==
    (code = SrcForBreak /\ pc = "done") =>
        /\ ~error_flag
        /\ analyzer.err = ""
        /\ result = "EXECUTION RESULT"
        /\ "r" \in DOMAIN vars
        /\ vars["r"] = IntV(3)

\* C4: the bytecode of an ExprStatement runs without a VM error, leaves the
\* operand stack as deep as before and execution goes on with the next
\* statement (y = 7 follows it in both programs).
C4_ExprStatementRuns ==
    (code \in {SrcExprStmt, SrcCallStmt} /\ pc = "done") =>
        /\ raised = ""
        /\ stack = <<>>
        /\ "y" \in DOMAIN vars
        /\ vars["y"] = IntV(7)

\* C5: the opcode emitted for '!=' is executed by the VM as a comparison,
\* never refused as an unknown instruction.
C5_NotEqualExecutes == UnknownOp # opmap("!=")

\* C6: the NEG emitted for unary minus is executed by the VM (pop a, push
\* -a), so that x = -5; ends with x = -5 and no VM error.
C6_NegExecutes ==
    /\ UnknownOp # "NEG"
    /\ (code = SrcNeg /\ pc = "done") =>
          (raised = "" /\ "x" \in DOMAIN vars /\ vars["x"] = IntV(-5))

\* C7: for '&&' and '||' the analyzer raises SemanticError unless both
\* operand types are bool, and two bool operands give bool.
C7_LogicalNeedsBool ==
    \A i \in 1..Len(analyzer.binops) :
        LET e == analyzer.binops[i]
            t == TypesAfterPropagation(e.op, e.lt0, e.rt0)
        IN  e.op \in {"&&", "||"} =>
                IF t = <<"bool", "bool">> THEN e.err = "" /\ e.ty = "bool"
                ELSE e.err = "SemanticError"

\* C8: for '==' and '!=' the analyzer raises SemanticError exactly when the
\* two operand types differ and neither is null; an accepted comparison has
\* the type bool.
C8_EqualityTyping ==
    \A i \in 1..Len(analyzer.binops) :
        LET e == analyzer.binops[i]
            t == TypesAfterPropagation(e.op, e.lt0, e.rt0)
        IN  e.op \in {"==", "!="} =>
                IF t[1] # t[2] /\ t[1] # "null" /\ t[2] # "null"
                THEN e.err = "SemanticError"
                ELSE e.err = "" /\ e.ty = "bool"

\* C9: for '%' the analyzer raises SemanticError "Modulo '%' requires
\* integer operands" unless both operand types, after propagation, are int;
\* x = "foo"; y = x % 2; is rejected with that message.
C9_ModuloNeedsInt ==
    /\ \A i \in 1..Len(analyzer.binops) :
          LET e == analyzer.binops[i]
              t == TypesAfterPropagation(e.op, e.lt0, e.rt0)
          IN  e.op = "%" =>
                  IF t = <<"int", "int">> THEN e.err = ""
                  ELSE /\ e.err = "SemanticError"
                       /\ e.msg = "Modulo '%' requires integer operands"
                       /\ i = Len(analyzer.binops)
                       /\ analyzer.err = "SemanticError"
                       /\ analyzer.msg = e.msg
    /\ (code = SrcModString /\ pc \notin {"parse", "analyze"}) =>
          (analyzer.err = "SemanticError"
             /\ analyzer.msg = "Modulo '%' requires integer operands")

\* a '%' on a string and an int has been analyzed and rejected
C9_Witness ==
    /\ code = SrcModString
    /\ pc = "generate"
    /\ Len(analyzer.binops) = 1
    /\ analyzer.binops[1].op = "%"
    /\ analyzer.binops[1].lt0 = "string"
    /\ analyzer.binops[1].rt0 = "int"
    /\ analyzer.err = "SemanticError"

\* C10: a FunCall raises SemanticError if the callee does not resolve, is
\* no function or is called with another number of arguments than it has
\* parameters; otherwise the call raises nothing itself and its arguments
\* are analyzed (an undefined name in an argument is reported).
C10_FunCallChecks ==
    /\ \A i \in 1..Len(analyzer.calls) :
          LET e == analyzer.calls[i]
          IN  IF ~e.found \/ e.symtype # "function" \/ e.nargs # e.nparams
              THEN /\ e.raised # ""
                   /\ i = Len(analyzer.calls)
                   /\ analyzer.err = "SemanticError"
                   /\ analyzer.msg = e.raised
              ELSE e.raised = ""
    /\ \A k \in 0..MaxArity, m \in 0..MaxArity :
          /\ (code = SrcFuncDef(k) \o SrcCall("f", <<NUM(1)>>, m)
                 /\ pc \notin {"parse", "analyze"}) =>
                ((analyzer.err = "") <=> (k = m))
          /\ (code = SrcFuncDef(k) \o SrcCall("f", <<ID("u")>>, m)
                 /\ pc \notin {"parse", "analyze"} /\ k = m /\ m > 0) =>
                (analyzer.err = "SemanticError"
                   /\ analyzer.msg = "Use of undefined variable"
                   /\ analyzer.calls[1].raised = "")

\* a call with one argument less than the function has parameters has been
\* analyzed and rejected
C10_Witness ==
    /\ pc = "generate"
    /\ Len(analyzer.calls) = 1
    /\ analyzer.calls[1].found
    /\ analyzer.calls[1].symtype = "function"
    /\ analyzer.calls[1].nargs + 1 = analyzer.calls[1].nparams
    /\ analyzer.err = "SemanticError"
    /\ analyzer.msg = "Argument count mismatch"

\* C11: in a BinOp with a call on one side and an int on the other the call
\* counts as unknown and takes the int type, so '<', '==' and '%' on f() and
\* an int raise no SemanticError.
C11_CallOperandIsUnknown ==
    \A i \in 1..Len(analyzer.binops) :
        LET e == analyzer.binops[i]
        IN  (e.op \in {"<", "==", "%"}
               /\ ((e.lt0 = "None" /\ e.rt0 = "int") \/ (e.lt0 = "int" /\ e.rt0 = "None")))
            => e.err = ""

\* C12: in the run of an accepted program, an instruction behind the
\* top-level HALT is fetched only while the call stack is not empty.
C12_AfterHaltOnlyInCall ==
    (Running /\ analyzer.err = "") =>
        \A h \in 1..Len(bytecode) :
            (bytecode[h].op = "HALT" /\ h < ip) => call_stack # <<>>

\* the machine is about to fetch an instruction of a called function
C12_Witness ==
    /\ Running
    /\ analyzer.err = ""
    /\ \E h \in 1..Len(bytecode) : bytecode[h].op = "HALT" /\ h < ip
    /\ Len(call_stack) = 2

\* C13: in the run of an accepted program, every LOAD the machine is about
\* to execute names a variable that is already in the variable map.
C13_LoadFindsVariable ==
    (Running /\ analyzer.err = "" /\ bytecode[ip].op = "LOAD") =>
        bytecode[ip].a \in DOMAIN vars

\* C14: the analysis of an if or while whose body is a single statement
\* without braces finishes normally or raises SemanticError, nothing else.
C14_BareBodyAnalyzed ==
    (pc \notin {"parse", "analyze"} /\ ast_root.kind = "Program"
       /\ \E i \in 1..Len(ast_root.statements) :
             LET s == ast_root.statements[i]
             IN  \/ (s.kind = "IfStatement" /\ s.then_body.kind # "Block")
                 \/ (s.kind = "WhileStatement" /\ s.body.kind # "Block"))
    => analyzer.err \in {"", "SemanticError"}

\* C15: run() returns the variable map exactly after HALT, after RET with an
\* empty call stack, or when ip has reached the end of the bytecode; every
\* other step executes one line and then goes on or raises, and a line with
\* an opcode the machine does not know raises.
C15_RunStopsInThreeCases ==
    [][pc = "run" =>
          IF halted \/ ip > Len(bytecode)
          THEN pc' = "done" /\ result' = "EXECUTION RESULT" /\ raised' = "" /\ vars' = vars
          ELSE LET instr == bytecode[ip]
                   stops == \/ instr.op = "HALT"
                            \/ (instr.op = "RET" /\ call_stack = <<>>)
               IN  /\ steps' = steps + 1
                   /\ halted' = stops
                   /\ stops => (pc' = "run" /\ raised' = "" /\ vars' = vars)
                   /\ \/ pc' = "run" /\ raised' = ""
                      \/ pc' = "done" /\ raised' # "" /\ result' # "EXECUTION RESULT"
                   /\ (raised' = "Exception: Unknown instruction") <=>
                         (instr.op \notin {"LABEL", "HALT", "PUSH", "LOAD", "STORE", "ADD",
                                           "SUB", "MUL", "DIV", "MOD", "GE", "GT", "LE",
                                           "LT", "EQ", "NE", "AND", "OR", "JZ", "JMP",
                                           "JMP_IF_FALSE", "CALL", "RET"})
      ]_vars_all

\* run() has returned the map because the last line, not HALT nor RET, was
\* executed and ip stands behind the bytecode
C15_Witness ==
    /\ pc = "done"
    /\ result = "EXECUTION RESULT"
    /\ ~halted
    /\ ip = Len(bytecode) + 1
    /\ steps = 3
    /\ "x" \in DOMAIN vars

\* C16: in the run of an accepted program, when a call made by a top-level
\* assignment x = f(...) has returned (the machine stands on the STORE behind
\* the CALL, the call stack empty again), the operand stack holds the return
\* value and nothing else: one value more than before the arguments.
C16_CallLeavesOneValue ==
    (Running /\ analyzer.err = "" /\ call_stack = <<>> /\ ip > 1
       /\ bytecode[ip - 1].op = "CALL" /\ bytecode[ip].op = "STORE")
    => Len(stack) = 1

\* the function definition a top-level call of `name` resolves to: the last top-level definition
IsDeclared(j) ==
    /\ ast_root.statements[j].kind = "FunctionDef"
    /\ \A k \in (j + 1)..Len(ast_root.statements) :
          ast_root.statements[k].kind = "FunctionDef"
              => ast_root.statements[k].name # ast_root.statements[j].name

C18_LabelsUnique ==
    (pc = "run" /\ analyzer.err = "")
        => /\ \A i, j \in 1..Len(bytecode) :
                 (bytecode[i].op = "LABEL" /\ bytecode[j].op = "LABEL"
                    /\ bytecode[i].a = bytecode[j].a) => i = j
           /\ \A i \in 1..Len(bytecode) :
                 bytecode[i].op \in {"JZ", "JMP", "JMP_IF_FALSE", "CALL"}
                     => \A j \in 1..Len(bytecode) :
                           bytecode[j] = LabelLine(bytecode[i].a) => labels[bytecode[i].a] = j

\* C19: during the analysis of any AST the parser produces the scope stack keeps the global
\* frame: it is never empty and no pop removes frame 0, because every pop_scope follows its
\* own push_scope (visit_Block, visit_ForStatement, visit_FunctionDef); an analysis that ends
\* without an exception leaves exactly the global frame.
C19_GlobalFrameStays ==
    /\ analyzer.low >= 1
    /\ Len(analyzer.scopes) >= 1
    /\ (pc \notin {"parse", "analyze"} /\ analyzer.err = "") => Len(analyzer.scopes) = 1

C19_Witness ==
    /\ pc = "generate" /\ analyzer.err = "" /\ code = SrcFuncAdd
    /\ Len(analyzer.scopes) = 1 /\ "add" \in DOMAIN analyzer.scopes[1]
    /\ "a" \notin DOMAIN analyzer.scopes[1]

\* C20: ADD and SUB pop b then a and push a + b / a - b only when both operands are numeric
\* (integer or float); with an operand of any other kind (string, boolean) the step raises a
\* RuntimeError and pushes nothing.
C20_AddSubNeedNumbers ==
    [][(Running /\ bytecode[ip].op \in {"ADD", "SUB"} /\ Len(stack) >= 2)
          => LET b == stack[Len(stack)]
                 a == stack[Len(stack) - 1]
                 rest == SubSeq(stack, 1, Len(stack) - 2)
             IN  IF a.k \in {"int", "float"} /\ b.k \in {"int", "float"}
                 THEN /\ raised' = ""
                      /\ stack' = Append(rest, IF bytecode[ip].op = "ADD"
                                               THEN PyAdd(a, b).v ELSE PySub(a, b).v)
                 ELSE /\ raised' \in {"RuntimeError: Cannot add", "RuntimeError: Cannot subtract"}
                      /\ stack' = rest
                      /\ pc' = "done"]_vars_all

\* C21: for any sequence of Parser.parse calls on one Parser object, error_flag after a call
\* is true if and only if that call reported a syntax error; a syntactically valid source
\* parsed after an invalid one leaves error_flag false and the driver goes on to the later
\* stages for it.
C21_ErrorFlagPerCall ==
    [][pc = "parse"
          => /\ error_flag' = ~p_program(code).ok
             /\ p_program(code).ok => pc' = "analyze"]_vars_all

=============================================================================
